---- MODULE Spec2Model ----
(***************************************************************************)
(* structclasses: the pack/unpack execution Context (base.py), the record  *)
(* container field (field/record.py) and the selector-driven union field   *)
(* (field/union.py), modelled as a state machine over one Context object.  *)
(*                                                                         *)
(* Representation.                                                         *)
(*   - A Python value of the data tree is a tagged record:                 *)
(*       [t |-> "int", v |-> n]      an int                                *)
(*       [t |-> "dict", m |-> f]     a dict, f a function on key strings   *)
(*       [t |-> "None"]              None                                  *)
(*   - A str key "a.b" is held split, as <<"a", "b">>; the key None as <<>>*)
(*     and the field name None as the string NoName.                       *)
(*   - A format string is the sequence of its characters; bytes are a      *)
(*     sequence of numbers 0..255.                                         *)
(*   - An exception is the string naming its class in the field exc of the *)
(*     Context record the handlers thread through ("none": no exception).  *)
(***************************************************************************)
EXTENDS Integers, Sequences, FiniteSets, TLC

VARIABLES
    params,     \* Context.params.byte_order.value
    root,       \* Context.root
    data,       \* Context.data
    fields,     \* Context.fields, the pending list of FieldContext
    offset,     \* Context.offset
    _scope,     \* Context._scope
    exc,        \* the exception the last operation raised, "none" if it returned
    op,         \* the last operation done on the Context, with its argument
    codec,      \* the codec calls of the last operation, in order
    hooks,      \* the pack_value / unpack_value calls of the last pass, in order
    scopelog,   \* the scope / reset_scope entries and exits of the last operation
    ncalls,     \* codec calls since the registration of the tree began (history)
    tree,       \* the field tree the caller uses with the Context (input)
    orig,       \* the root the first Context was constructed with (history)
    extra,      \* the bytes the caller put after the packed ones (history)
    flow,       \* how far the caller is on the pack / new / unpack path (history)
    nops,       \* number of operations done so far (history, bounded by MaxOps)
    args,       \* the arguments of the last operation
    result,     \* what the last operation returned
    heap,       \* the Field objects and the specialized classes built so far,
                \* by identity
    classes,    \* __structclass_fields__ of the classes built so far
    registry    \* Field.__specialized_classes__: the class registered for a name

vars == <<params, root, data, fields, offset, _scope, exc, op, codec, hooks,
          scopelog, ncalls, tree, orig, extra, flow, nops, args, result,
          heap, classes, registry>>

----------------------------------------------------------------------------
(* Python values *)

NoName == "None"

PyInt(n) == [t |-> "int", v |-> n]

Dict(f) == [t |-> "dict", m |-> f]

EmptyDict == Dict(<<>>)

PyNone == [t |-> "None"]

MISSING == [t |-> "MISSING"]

\* `v = e` followed by F(v): e is evaluated once
Bind(e, F(_)) == CHOOSE r \in {F(v) : v \in {e}} : TRUE

\* Python truth value of a data tree value (`not context.get(None)`).
Truthy(val) ==
    CASE val.t = "int" -> val.v # 0
      [] val.t = "dict" -> DOMAIN val.m # {}
      [] OTHER -> FALSE

----------------------------------------------------------------------------
(* The primitive codec: struct.pack, struct.unpack_from, struct.calcsize *)

ByteOrder == {"@", "=", "<", ">", "!"}

\* The byte order of the host the codec runs on, for "@" and "=".
NativeLittle == TRUE

ValidCodes == {"b", "B", "h", "H"}

CodeSize(ch) == IF ch \in {"b", "B"} THEN 1 ELSE 2

CodeSigned(ch) == ch \in {"b", "h"}

LittleEndian(order) == order = "<" \/ (order \in {"@", "="} /\ NativeLittle)

\* Pad bytes before a code at position len: native alignment under "@" only.
PadBefore(order, len, ch) ==
    IF order = "@" THEN (CodeSize(ch) - (len % CodeSize(ch))) % CodeSize(ch) ELSE 0

Zeros(n) == [i \in 1..n |-> 0]

Reverse(s) == [i \in 1..Len(s) |-> s[Len(s) + 1 - i]]

InRange(ch, n) ==
    IF CodeSigned(ch)
    THEN -(2^(8 * CodeSize(ch) - 1)) <= n /\ n < 2^(8 * CodeSize(ch) - 1)
    ELSE 0 <= n /\ n < 2^(8 * CodeSize(ch))

Encode(order, ch, n) ==
    LET u == n % (2^(8 * CodeSize(ch)))
        le == [i \in 1..CodeSize(ch) |-> (u \div (2^(8 * (i - 1)))) % (2^8)]
    IN  IF LittleEndian(order) THEN le ELSE Reverse(le)

RECURSIVE Unsigned(_)
Unsigned(le) ==
    IF le = <<>> THEN 0 ELSE Head(le) + (2^8) * Unsigned(Tail(le))

Decode(order, ch, bs) ==
    LET u == Unsigned(IF LittleEndian(order) THEN bs ELSE Reverse(bs))
    IN  IF CodeSigned(ch) /\ u >= 2^(8 * CodeSize(ch) - 1)
        THEN u - 2^(8 * CodeSize(ch))
        ELSE u

FormatValid(fmt) ==
    /\ Len(fmt) >= 1
    /\ fmt[1] \in ByteOrder
    /\ \A i \in 2..Len(fmt) : fmt[i] \in ValidCodes

RECURSIVE SizeFrom(_, _, _)
SizeFrom(order, codes, len) ==
    IF codes = <<>> THEN len
    ELSE SizeFrom(order, Tail(codes),
                  len + PadBefore(order, len, Head(codes)) + CodeSize(Head(codes)))

\* struct.calcsize(fmt), for a valid fmt
calcsize(fmt) == SizeFrom(fmt[1], Tail(fmt), 0)

RECURSIVE PackFrom(_, _, _, _)
PackFrom(order, codes, values, acc) ==
    IF codes = <<>> THEN acc
    ELSE PackFrom(order, Tail(codes), Tail(values),
                  acc \o Zeros(PadBefore(order, Len(acc), Head(codes)))
                      \o Encode(order, Head(codes), Head(values).v))

\* struct.pack(fmt, *values): [exc, bytes]
struct_pack(fmt, values) ==
    IF /\ FormatValid(fmt)
       /\ Len(values) = Len(fmt) - 1
       /\ \A i \in 1..Len(values) :
            values[i].t = "int" /\ InRange(fmt[i + 1], values[i].v)
    THEN [exc |-> "none", bytes |-> PackFrom(fmt[1], Tail(fmt), values, <<>>)]
    ELSE [exc |-> "struct.error", bytes |-> <<>>]

RECURSIVE UnpackFrom(_, _, _, _, _)
UnpackFrom(order, codes, buf, pos, len) ==
    IF codes = <<>> THEN <<>>
    ELSE LET at == len + PadBefore(order, len, Head(codes))
             sz == CodeSize(Head(codes))
         IN  <<PyInt(Decode(order, Head(codes),
                          SubSeq(buf, pos + at + 1, pos + at + sz)))>>
             \o UnpackFrom(order, Tail(codes), buf, pos, at + sz)

\* struct.unpack(fmt, buffer[offset:]): the buffer must have the exact size
struct_unpack_exact(fmt, buf, off) ==
    IF FormatValid(fmt) /\ off + calcsize(fmt) = Len(buf)
    THEN [exc |-> "none", values |-> UnpackFrom(fmt[1], Tail(fmt), buf, off, 0)]
    ELSE [exc |-> "struct.error", values |-> <<>>]

\* struct.unpack_from(fmt, buffer, offset): [exc, values]
struct_unpack_from(fmt, buf, off) ==
    IF FormatValid(fmt) /\ off + calcsize(fmt) <= Len(buf)
    THEN [exc |-> "none", values |-> UnpackFrom(fmt[1], Tail(fmt), buf, off, 0)]
    ELSE [exc |-> "struct.error", values |-> <<>>]

----------------------------------------------------------------------------
(* Field schemas.  A field is a record with kind, name, fmt and, for the   *)
(* composites, fields (record: the children in declaration order; union:   *)
(* the mapping from selector value to member) and selector (union).        *)

\* PrimitiveField: a single format code
Primitive(name, code) == [kind |-> "primitive", name |-> name, fmt |-> <<code>>]

\* RecordField: `fmt: str = ""`
Record(name, flds) ==
    [kind |-> "record", name |-> name, fmt |-> <<>>, fields |-> flds]

\* UnionField: `super().__init__(Union, fmt="|", **kwargs)`
Union(name, selector, members) ==
    [kind |-> "union", name |-> name, fmt |-> <<"|">>,
     selector |-> selector, fields |-> members]

\* Field.struct_format(context)
Field_struct_format(f, c) == f.fmt

\* the attrs a key names: `key.split(".")` for a str, () for None
NameKey(name) == IF name = NoName THEN <<>> ELSE <<name>>

----------------------------------------------------------------------------
(* lookup and the Context *)

Raise(c, e) == [c EXCEPT !.exc = e]

Failed(c) == c.exc # "none"

RECURSIVE lookup(_, _)
\* lookup(obj, attr, *attrs): [exc, v]; attrs is not empty
lookup(obj, attrs) ==
    IF obj.t # "dict"
    THEN [exc |-> "AttributeError", v |-> PyNone]
    ELSE IF Head(attrs) \notin DOMAIN obj.m
    THEN [exc |-> "KeyError", v |-> PyNone]
    ELSE IF obj.m[Head(attrs)] = MISSING
    THEN [exc |-> "KeyError", v |-> PyNone]
    ELSE IF Len(attrs) > 1
    THEN lookup(obj.m[Head(attrs)], Tail(attrs))
    ELSE [exc |-> "none", v |-> obj.m[Head(attrs)]]

RECURSIVE SetItem(_, _, _, _)
\* the tree obj with obj[path...][attr] = value; every step of path is a dict
SetItem(obj, path, attr, value) ==
    IF path = <<>>
    THEN Dict((attr :> value) @@ obj.m)
    ELSE Dict((Head(path) :> SetItem(obj.m[Head(path)], Tail(path), attr, value))
              @@ obj.m)

IsName(s) == s # NoName

\* Context.scope(*scope), entry: None names are dropped, () changes nothing
Context_scope_enter(c, names) ==
    LET scope == SelectSeq(names, IsName)
    IN  IF scope = <<>> THEN c
        ELSE [c EXCEPT !._scope = @ \o scope,
                       !.scopelog = Append(@, [ev |-> "enter", at |-> c._scope])]

\* Context.scope(*scope) without the try/finally: an exception leaves _scope as it is
Context_scope_exit_no_finally(c, names) ==
    LET scope == SelectSeq(names, IsName)
        back  == SubSeq(c._scope, 1, Len(c._scope) - Len(scope))
    IN  IF scope = <<>> \/ Failed(c) THEN c
        ELSE [c EXCEPT !._scope = back,
                       !.scopelog = Append(@, [ev |-> "exit", at |-> back])]

\* Context.scope(*scope), the finally block
Context_scope_exit(c, names) ==
    LET scope == SelectSeq(names, IsName)
        back  == SubSeq(c._scope, 1, Len(c._scope) - Len(scope))
    IN  IF scope = <<>> THEN c
        ELSE [c EXCEPT !._scope = back,
                       !.scopelog = Append(@, [ev |-> "exit", at |-> back])]

\* Context.reset_scope(), entry (restore_to is the caller's c._scope)
Context_reset_scope_enter(c) ==
    [c EXCEPT !._scope = <<>>,
              !.scopelog = Append(@, [ev |-> "enter", at |-> c._scope])]

\* Context.reset_scope(), the finally block
Context_reset_scope_exit(c, restore_to) ==
    [c EXCEPT !._scope = restore_to,
              !.scopelog = Append(@, [ev |-> "exit", at |-> restore_to])]

RECURSIVE JoinFormats(_)
\* `"".join(fx.struct_format for fx in self.fields)`
JoinFormats(fxs) ==
    IF fxs = <<>> THEN <<>>
    ELSE Head(fxs).struct_format \o JoinFormats(Tail(fxs))

\* Context.struct_format with the fragments joined last registered first
Context_struct_format_reversed(c) == <<c.params>> \o Reverse(JoinFormats(c.fields))

\* Context.struct_format
Context_struct_format(c) == <<c.params>> \o JoinFormats(c.fields)

\* Context.add(field)
Context_add(c, f) ==
    [c EXCEPT !.fields = Append(@, [field |-> f,
                                    struct_format |-> Field_struct_format(f, c),
                                    scope |-> c._scope])]

\* Context.set(key, value, upsert)
Context_set(c, attrs, value, upsert) ==
    IF attrs = <<>> /\ c._scope = <<>>
    THEN IF upsert THEN [c EXCEPT !.root = value] ELSE Raise(c, "AssertionError")
    ELSE
    LET n     == Len(c._scope)
        scope == IF attrs # <<>> THEN c._scope ELSE SubSeq(c._scope, 1, n - 2)
        at    == IF attrs # <<>> THEN attrs
                 ELSE SubSeq(c._scope, IF n > 2 THEN n - 1 ELSE 1, n)
        path  == scope \o SubSeq(at, 1, Len(at) - 1)
        attr  == at[Len(at)]
    IN  Bind(IF path = <<>> THEN [exc |-> "none", v |-> c.root]
             ELSE lookup(c.root, path), LAMBDA obj :
        IF obj.exc # "none" THEN Raise(c, obj.exc)
        ELSE IF obj.v.t = "dict" /\ (attr \in DOMAIN obj.v.m \/ upsert)
        THEN IF ~upsert /\ value.t # obj.v.m[attr].t
             THEN Raise(c, "AssertionError")
             ELSE [c EXCEPT !.root = SetItem(c.root, path, attr, value)]
        ELSE IF upsert THEN Raise(c, "AttributeError")
        ELSE Raise(c, "ValueError"))

\* Context.get(key, default) with set_default=None: [c, v]
Context_get(c, attrs, default) ==
    Bind(IF attrs = <<>> /\ c._scope = <<>>
         THEN [exc |-> "none", v |-> c.root]
         ELSE lookup(c.root, c._scope \o attrs), LAMBDA found :
        IF found.exc = "none" THEN [c |-> c, v |-> found.v]
        ELSE IF default # MISSING
        THEN [c |-> IF default # PyNone THEN Context_set(c, attrs, default, TRUE)
                    ELSE c,
              v |-> default]
        ELSE [c |-> Raise(c, "ValueError"), v |-> PyNone])

----------------------------------------------------------------------------
(* The value hooks of the field kinds *)

\* UnionField.union_field that ignores the selector value: the first member
UnionField_union_field_first(f, c) ==
    Bind(Context_get(c, f.selector, MISSING), LAMBDA g :
        IF Failed(g.c) THEN [c |-> g.c, fld |-> f]
        ELSE [c |-> c, fld |-> f.fields[CHOOSE k \in DOMAIN f.fields :
                                           \A j \in DOMAIN f.fields : k <= j]])

\* UnionField.union_field(context): `self.fields[context.get(self.selector)]`
UnionField_union_field(f, c) ==
    Bind(Context_get(c, f.selector, MISSING), LAMBDA g :
        IF Failed(g.c) THEN [c |-> g.c, fld |-> f]
        ELSE IF g.v.t # "int" THEN [c |-> Raise(c, "TypeError"), fld |-> f]
        ELSE IF g.v.v \notin DOMAIN f.fields
        THEN [c |-> Raise(c, "KeyError"), fld |-> f]
        ELSE [c |-> c, fld |-> f.fields[g.v.v]])

\* PrimitiveField.pack_value(context, value): the value itself
PrimitiveField_pack_value(f, c, value) == [c |-> c, values |-> <<value>>]

\* PrimitiveField.unpack_value(context, values): the next value of the iterator
PrimitiveField_unpack_value(f, c, values) ==
    IF values = <<>>
    THEN [c |-> Raise(c, "StopIteration"), value |-> PyNone, values |-> values]
    ELSE [c |-> c, value |-> Head(values), values |-> Tail(values)]

\* the call of a value hook, recorded in hooks
Hooked(c, hook, f) ==
    [c EXCEPT !.hooks = Append(@, [hook |-> hook, field |-> f, scope |-> c._scope])]

RECURSIVE Field_pack_value(_, _, _)
\* <field>.pack_value(context, value): [c, values]
Field_pack_value(f, c, value) ==
    CASE f.kind = "primitive" ->
           PrimitiveField_pack_value(f, Hooked(c, "pack_value", f), value)
      [] f.kind = "union" ->
           Bind(UnionField_union_field(f, Hooked(c, "pack_value", f)), LAMBDA u :
               IF Failed(u.c) THEN [c |-> u.c, values |-> <<>>]
               ELSE Field_pack_value(u.fld, u.c, value))
      [] OTHER ->
           [c |-> Raise(Hooked(c, "pack_value", f), "NotImplementedError"),
            values |-> <<>>]

RECURSIVE RecordField_kwargs(_, _, _)
\* RecordField.unpack_value: `{fld.name: context.get(fld.name) for fld in self.fields}`
RecordField_kwargs(flds, c, m) ==
    IF flds = <<>> \/ Failed(c) THEN [c |-> c, m |-> m]
    ELSE Bind(Context_get(c, NameKey(Head(flds).name), MISSING), LAMBDA g :
             RecordField_kwargs(Tail(flds), g.c, (Head(flds).name :> g.v) @@ m))

\* RecordField.unpack_value(context, values): `self.type(**kwargs)`
RecordField_unpack_value(f, c, values) ==
    Bind(RecordField_kwargs(f.fields, Context_scope_enter(c, <<f.name>>), <<>>),
         LAMBDA k :
    Bind(Context_scope_exit(k.c, <<f.name>>), LAMBDA c1 :
        IF Failed(c1) THEN [c |-> c1, value |-> PyNone, values |-> values]
        ELSE [c |-> c1, value |-> Dict(k.m), values |-> values]))

RECURSIVE Field_unpack_value(_, _, _)
\* <field>.unpack_value(context, values): [c, value, values]
Field_unpack_value(f, c, values) ==
    CASE f.kind = "primitive" ->
           PrimitiveField_unpack_value(f, Hooked(c, "unpack_value", f), values)
      [] f.kind = "record" ->
           RecordField_unpack_value(f, Hooked(c, "unpack_value", f), values)
      [] OTHER ->
           Bind(UnionField_union_field(f, Hooked(c, "unpack_value", f)), LAMBDA u :
               IF Failed(u.c) THEN [c |-> u.c, value |-> PyNone, values |-> values]
               ELSE Field_unpack_value(u.fld, u.c, values))

----------------------------------------------------------------------------
(* Context.pack and Context.unpack *)

\* Context._pack_field(fx): [c, values]
Context__pack_field(c, fx) ==
    Bind(Context_scope_enter(c, fx.scope), LAMBDA c1 :
    Bind(IF fx.field.name # NoName \/ c1._scope # <<>>
         THEN Context_get(c1, NameKey(fx.field.name), MISSING)
         ELSE [c |-> c1, v |-> c1.root], LAMBDA g :
    Bind(IF Failed(g.c) THEN [c |-> g.c, values |-> <<>>]
         ELSE Field_pack_value(fx.field, g.c, g.v), LAMBDA r :
        [c |-> Context_scope_exit(r.c, fx.scope), values |-> r.values])))

RECURSIVE PackValues(_, _, _)
\* `chain.from_iterable(self._pack_field(fx) for fx in self.fields)`: [c, values]
PackValues(c, fxs, values) ==
    IF fxs = <<>> \/ Failed(c) THEN [c |-> c, values |-> values]
    ELSE Bind(Context__pack_field(c, Head(fxs)), LAMBDA r :
             PackValues(r.c, Tail(fxs), values \o r.values))

\* the call of the codec by Context.pack, recorded in codec
PackCall(c, fmt, values, res) ==
    [c EXCEPT !.codec = Append(@, [fn |-> "pack", fmt |-> fmt, values |-> values,
                                   at |-> Len(c.data), ok |-> res.exc = "none"]),
              !.exc = res.exc,
              !.data = @ \o res.bytes]

\* Context.pack() without `self.fields = []`
Context_pack_keeps_fields(c) ==
    IF c.fields = <<>> THEN c
    ELSE
    Bind(Context_reset_scope_enter(c), LAMBDA c1 :
    Bind(PackValues(c1, c1.fields, <<>>), LAMBDA pv :
        Context_reset_scope_exit(
            IF Failed(pv.c) THEN pv.c
            ELSE PackCall(pv.c, Context_struct_format(c1), pv.values,
                          struct_pack(Context_struct_format(c1), pv.values)),
            c._scope)))

\* Context.pack() with `self.fields = []` in a `finally`
Context_pack_clears_always(c) ==
    IF c.fields = <<>> THEN c
    ELSE
    Bind(Context_reset_scope_enter(c), LAMBDA c1 :
    Bind(PackValues(c1, c1.fields, <<>>), LAMBDA pv :
    Bind(Context_reset_scope_exit(
             IF Failed(pv.c) THEN pv.c
             ELSE PackCall(pv.c, Context_struct_format(c1), pv.values,
                           struct_pack(Context_struct_format(c1), pv.values)),
             c._scope), LAMBDA c3 :
        [c3 EXCEPT !.fields = <<>>])))

\* Context.pack()
Context_pack(c) ==
    IF c.fields = <<>> THEN c
    ELSE
    Bind(Context_reset_scope_enter(c), LAMBDA c1 :
    Bind(PackValues(c1, c1.fields, <<>>), LAMBDA pv :
    Bind(Context_reset_scope_exit(
             IF Failed(pv.c) THEN pv.c
             ELSE PackCall(pv.c, Context_struct_format(c1), pv.values,
                           struct_pack(Context_struct_format(c1), pv.values)),
             c._scope), LAMBDA c3 :
        IF Failed(c3) THEN c3 ELSE [c3 EXCEPT !.fields = <<>>])))

\* the call of the codec by Context.unpack_next, recorded in codec
UnpackCall(c, fmt, res) ==
    [c EXCEPT !.codec = Append(@, [fn |-> "unpack_from", fmt |-> fmt,
                                   values |-> res.values, at |-> c.offset,
                                   ok |-> res.exc = "none"])]

\* Context.unpack_next(fmt) that moves the offset before it calls the codec
Context_unpack_next_advances_first(c, fmt) ==
    Bind(struct_unpack_from(fmt, c.data, c.offset), LAMBDA res :
    Bind([UnpackCall(c, fmt, res) EXCEPT
              !.offset = @ + (IF FormatValid(fmt) THEN calcsize(fmt) ELSE 0)],
         LAMBDA c1 :
        IF res.exc # "none" THEN [c |-> Raise(c1, res.exc), values |-> <<>>]
        ELSE [c |-> c1, values |-> res.values]))

\* Context.unpack_next(fmt): [c, values]
Context_unpack_next(c, fmt) ==
    Bind(struct_unpack_from(fmt, c.data, c.offset), LAMBDA res :
    Bind(UnpackCall(c, fmt, res), LAMBDA c1 :
        IF res.exc # "none" THEN [c |-> Raise(c1, res.exc), values |-> <<>>]
        ELSE [c |-> [c1 EXCEPT !.offset = @ + calcsize(fmt)],
              values |-> res.values]))

RECURSIVE UnpackFields(_, _, _)
\* the loop of Context.unpack over the fields of the pass
UnpackFields(c, fxs, values) ==
    IF fxs = <<>> \/ Failed(c) THEN c
    ELSE
    Bind(Field_unpack_value(Head(fxs).field, Context_scope_enter(c, Head(fxs).scope),
                            values), LAMBDA r :
        UnpackFields(
            Context_scope_exit(
                IF ~Failed(r.c) /\ (r.value # PyNone \/ r.c._scope # <<>>)
                THEN Context_set(r.c, NameKey(Head(fxs).field.name), r.value, TRUE)
                ELSE r.c,
                Head(fxs).scope),
            Tail(fxs), r.values))

RECURSIVE UnpackPerField(_, _)
\* one codec call for every pending field instead of one for the pass
UnpackPerField(c, fxs) ==
    IF fxs = <<>> \/ Failed(c) THEN c
    ELSE Bind(Context_unpack_next(c, <<c.params>> \o Head(fxs).struct_format),
              LAMBDA u :
             UnpackPerField(IF Failed(u.c) THEN u.c
                            ELSE UnpackFields(u.c, <<Head(fxs)>>, u.values),
                            Tail(fxs)))

\* Context.unpack() decoding field by field
Context_unpack_per_field(c) ==
    IF c.fields = <<>> THEN c
    ELSE Context_reset_scope_exit(
             UnpackPerField([Context_reset_scope_enter(c) EXCEPT !.fields = <<>>],
                            c.fields),
             c._scope)

\* Context.unpack()
Context_unpack(c) ==
    IF c.fields = <<>> THEN c
    ELSE
    Bind(Context_unpack_next(Context_reset_scope_enter(c),
                             Context_struct_format(c)), LAMBDA u :
        Context_reset_scope_exit(
            IF Failed(u.c) THEN u.c
            ELSE UnpackFields([u.c EXCEPT !.fields = <<>>], c.fields, u.values),
            c._scope))

----------------------------------------------------------------------------
(* Registration: <field>.pack(context) and <field>.unpack(context) *)

RECURSIVE Field_pack(_, _)
RECURSIVE Field_unpack(_, _)
RECURSIVE PackEach(_, _)
RECURSIVE UnpackEach(_, _)

\* `for fld in self.fields: fld.pack(context)`
PackEach(flds, c) ==
    IF flds = <<>> \/ Failed(c) THEN c
    ELSE PackEach(Tail(flds), Field_pack(Head(flds), c))

\* `for fld in self.fields: fld.unpack(context)`
UnpackEach(flds, c) ==
    IF flds = <<>> \/ Failed(c) THEN c
    ELSE UnpackEach(Tail(flds), Field_unpack(Head(flds), c))

\* RecordField.pack(context) that also adds the container, after its children
RecordField_pack_adds_container(f, c) ==
    Bind(Context_scope_exit(PackEach(f.fields, Context_scope_enter(c, <<f.name>>)),
                            <<f.name>>), LAMBDA c1 :
        IF Failed(c1) THEN c1 ELSE Context_add(c1, f))

\* RecordField.pack(context)
RecordField_pack(f, c) ==
    Context_scope_exit(PackEach(f.fields, Context_scope_enter(c, <<f.name>>)),
                       <<f.name>>)

\* UnionField.pack(context)
UnionField_pack(f, c) ==
    Bind(UnionField_union_field(f, c), LAMBDA u :
        IF Failed(u.c) THEN u.c
        ELSE Context_scope_exit(
                 Field_pack(u.fld, Context_scope_enter(u.c, <<f.name>>)),
                 <<f.name>>))

\* <field>.pack(context); Field.pack is `context.add(self)`
Field_pack(f, c) ==
    CASE f.kind = "record" -> RecordField_pack(f, c)
      [] f.kind = "union" -> UnionField_pack(f, c)
      [] OTHER -> Context_add(c, f)

\* RecordField.unpack(context) that adds the container before its children
RecordField_unpack_container_first(f, c) ==
    Bind(Context_get(c, NameKey(f.name), EmptyDict), LAMBDA g :
        IF Failed(g.c) THEN g.c
        ELSE Context_scope_exit(
                 UnpackEach(f.fields,
                            Context_scope_enter(Context_add(g.c, f), <<f.name>>)),
                 <<f.name>>))

\* RecordField.unpack(context)
RecordField_unpack(f, c) ==
    Bind(Context_get(c, NameKey(f.name), EmptyDict), LAMBDA g :
        IF Failed(g.c) THEN g.c
        ELSE Bind(Context_scope_exit(
                      UnpackEach(f.fields, Context_scope_enter(g.c, <<f.name>>)),
                      <<f.name>>), LAMBDA c1 :
                 IF Failed(c1) THEN c1 ELSE Context_add(c1, f)))

\* the part of UnionField.unpack after the interim pass
UnionField_unpack_member(f, c1) ==
    IF Failed(c1) THEN c1
    ELSE Bind(Context_get(c1, <<>>, MISSING), LAMBDA g :
        IF Failed(g.c) THEN g.c
        ELSE IF ~Truthy(g.v) THEN Context_add(g.c, f)
        ELSE Bind(UnionField_union_field(f, g.c), LAMBDA u :
            IF Failed(u.c) THEN u.c
            ELSE Context_scope_exit(
                     Field_unpack(u.fld, Context_scope_enter(u.c, <<f.name>>)),
                     <<f.name>>)))

\* UnionField.unpack(context) without the interim `context.unpack()`
UnionField_unpack_no_interim(f, c) == UnionField_unpack_member(f, c)

\* UnionField.unpack(context), for a str selector
UnionField_unpack(f, c) ==
    UnionField_unpack_member(f, IF c.data # <<>> THEN Context_unpack(c) ELSE c)

\* <field>.unpack(context); Field.unpack is `context.add(self)`
Field_unpack(f, c) ==
    CASE f.kind = "record" -> RecordField_unpack(f, c)
      [] f.kind = "union" -> UnionField_unpack(f, c)
      [] OTHER -> Context_add(c, f)

----------------------------------------------------------------------------
(* Inputs: the field trees, roots and buffers the caller constructs a      *)
(* Context with, and the bound of the model.                               *)

MaxOps == 5

Members ==
    (0 :> Primitive(NoName, "h"))
    @@ (1 :> Record(NoName, <<Primitive("b", "b"), Primitive("c", "B")>>))

F_prim == Primitive("test", "h")

F_flat == Record(NoName, <<Primitive("a", "b"), Primitive("b", "h")>>)

F_union ==
    Record(NoName, <<Primitive("typ", "b"), Union("v", <<"typ">>, Members)>>)

F_nest ==
    Record(NoName, <<Primitive("c", "B"),
                     Record("d", <<Primitive("typ", "B"),
                                   Union("v", <<"typ">>, Members)>>)>>)

F_first == Record(NoName, <<Union("v", <<"typ">>, Members), Primitive("typ", "b")>>)

F_mid ==
    Record(NoName, <<Primitive("a", "b"), Union("v", <<"typ">>, Members),
                     Primitive("typ", "b")>>)

Trees == {F_prim, F_flat, F_union, F_nest, F_first, F_mid}

D1(k, v) == Dict(k :> v)

D2(k1, v1, k2, v2) == Dict((k1 :> v1) @@ (k2 :> v2))

\* the (field tree, root) pairs of a Context constructed to pack: Context(root=v)
Cases ==
    { <<F_prim, D1("test", PyInt(258))>>,
      <<F_prim, D1("test", PyInt(40000))>>,
      <<F_flat, D2("a", PyInt(-1), "b", PyInt(258))>>,
      <<F_union, D2("typ", PyInt(0), "v", PyInt(258))>>,
      <<F_union, D2("typ", PyInt(1), "v", D2("b", PyInt(-1), "c", PyInt(200)))>>,
      <<F_union, D2("typ", PyInt(2), "v", PyInt(0))>>,
      <<F_union, D1("typ", PyInt(1))>>,
      <<F_nest, D2("c", PyInt(200), "d", D2("typ", PyInt(0), "v", PyInt(-2)))>>,
      <<F_nest, D2("c", PyInt(1), "d",
                   D2("typ", PyInt(1), "v", D2("b", PyInt(1), "c", PyInt(2))))>>,
      <<F_first, D2("typ", PyInt(0), "v", PyInt(258))>> }

\* the buffers of a Context constructed to unpack: Context(data=d)
Buffers == {<<>>, <<1>>, <<0, 1, 2, 3>>}

\* trailing bytes a caller may leave after the packed ones
Extras == {<<>>, <<255, 1>>}

----------------------------------------------------------------------------
(* The state machine *)

Ctx ==
    [params |-> params, root |-> root, data |-> data, fields |-> fields,
     offset |-> offset, _scope |-> _scope, exc |-> "none",
     codec |-> <<>>, hooks |-> <<>>, scopelog |-> <<>>]

\* Context(params=..., root=..., data=...): the state after construction
Context(order, r, d) ==
    [params |-> order, root |-> r, data |-> d, fields |-> <<>>,
     offset |-> 0, _scope |-> <<>>, exc |-> "none",
     codec |-> <<>>, hooks |-> <<>>, scopelog |-> <<>>]

\* the Context after the call name(*a), which returned v
InstallCall(c, name, a, v) ==
    /\ params' = c.params
    /\ root' = c.root
    /\ data' = c.data
    /\ fields' = c.fields
    /\ offset' = c.offset
    /\ _scope' = c._scope
    /\ exc' = c.exc
    /\ codec' = c.codec
    /\ hooks' = c.hooks
    /\ scopelog' = c.scopelog
    /\ op' = name
    /\ nops' = nops + 1
    /\ args' = a
    /\ result' = v
    /\ UNCHANGED <<tree, orig, heap, classes, registry>>

\* the Context after a call without arguments that returns None
Install(c, name) == InstallCall(c, name, <<>>, PyNone)

\* the caller's path: tree.pack(c); c.pack(); c.new(data=...); tree.unpack(c'); c'.unpack()
Path == <<"start", "packreg", "packed", "fresh", "unpackreg", "unpacked">>

Step(from, c) ==
    IF flow.ok /\ \E i \in 1..(Len(Path) - 1) : Path[i] = from /\ flow.at = from
    THEN [at |-> Path[(CHOOSE i \in 1..Len(Path) : Path[i] = from) + 1],
          ok |-> ~Failed(c)]
    ELSE [at |-> "off", ok |-> FALSE]

Init ==
    /\ params \in ByteOrder
    /\ \/ /\ \E case \in Cases : tree = case[1] /\ root = case[2]
          /\ data = <<>>
          /\ flow = [at |-> "start", ok |-> TRUE]
       \/ /\ tree \in Trees
          /\ root = EmptyDict
          /\ data \in Buffers
          /\ flow = [at |-> "off", ok |-> FALSE]
       \/ /\ \E case \in Cases : tree = case[1] /\ root = case[2] /\ tree = F_prim
          /\ data = <<1>>
          /\ flow = [at |-> "off", ok |-> FALSE]
    /\ fields = <<>>
    /\ offset = 0
    /\ _scope = <<>>
    /\ exc = "none"
    /\ op = "Context"
    /\ codec = <<>>
    /\ hooks = <<>>
    /\ scopelog = <<>>
    /\ ncalls = 0
    /\ orig = root
    /\ extra = <<>>
    /\ nops = 0
    /\ args = <<>>
    /\ result = PyNone
    /\ heap = <<>>
    /\ classes = <<>>
    /\ registry = <<>>

\* tree.pack(context)
FieldPack ==
    /\ nops < MaxOps
    /\ \E c \in {Field_pack(tree, Ctx)} :
         /\ Install(c, "Field.pack")
         /\ ncalls' = Len(c.codec)
         /\ flow' = Step("start", c)
    /\ UNCHANGED extra

\* context.pack()
Pack ==
    /\ nops < MaxOps
    /\ \E c \in {Context_pack(Ctx)} :
         /\ Install(c, "Context.pack")
         /\ ncalls' = ncalls + Len(c.codec)
         /\ flow' = Step("packreg", c)
    /\ UNCHANGED extra

\* context.new(data=context.data + trailing)
New ==
    /\ nops < MaxOps
    /\ \E trailing \in Extras :
         \E c \in {Context(params, EmptyDict, data \o trailing)} :
             /\ Install(c, "Context.new")
             /\ extra' = trailing
             /\ flow' = Step("packed", c)
    /\ ncalls' = 0

\* tree.unpack(context)
FieldUnpack ==
    /\ nops < MaxOps
    /\ \E c \in {Field_unpack(tree, Ctx)} :
         /\ Install(c, "Field.unpack")
         /\ ncalls' = Len(c.codec)
         /\ flow' = Step("fresh", c)
    /\ UNCHANGED extra

\* context.unpack()
Unpack ==
    /\ nops < MaxOps
    /\ \E c \in {Context_unpack(Ctx)} :
         /\ Install(c, "Context.unpack")
         /\ ncalls' = ncalls + Len(c.codec)
         /\ flow' = Step("unpackreg", c)
    /\ UNCHANGED extra

Next == FieldPack \/ Pack \/ New \/ FieldUnpack \/ Unpack

Spec == Init /\ [][Next]_vars

----------------------------------------------------------------------------
(* Properties *)

RECURSIVE Conforms(_, _, _)
\* val is a value of the schema f; parent is the dict that holds val
Conforms(f, val, parent) ==
    CASE f.kind = "primitive" -> val.t = "int" /\ InRange(f.fmt[1], val.v)
      [] f.kind = "record" ->
           /\ val.t = "dict"
           /\ DOMAIN val.m = {f.fields[i].name : i \in DOMAIN f.fields}
           /\ \A i \in DOMAIN f.fields :
                LET g == f.fields[i]
                IN  /\ g.kind = "union" =>
                          \E j \in 1..(i - 1) :
                              /\ f.fields[j].kind = "primitive"
                              /\ f.fields[j].name = g.selector[1]
                    /\ Conforms(g, val.m[g.name], val)
      [] OTHER ->
           /\ f.selector[1] \in DOMAIN parent.m
           /\ parent.m[f.selector[1]].t = "int"
           /\ parent.m[f.selector[1]].v \in DOMAIN f.fields
           /\ Conforms(f.fields[parent.m[f.selector[1]].v], val, parent)

\* the root r is a value of the field tree f
ConformsRoot(f, r) ==
    IF f.name = NoName THEN Conforms(f, r, r)
    ELSE /\ r.t = "dict"
         /\ DOMAIN r.m = {f.name}
         /\ Conforms(f, r.m[f.name], r)

\* C1: packing a schema-conformant value and unpacking the produced bytes
\* with the same schema and the same byte order succeeds at every step and
\* gives back a value equal to the one packed.
RoundTrip ==
    (flow.at # "off" /\ extra = <<>> /\ ConformsRoot(tree, orig)) =>
        /\ flow.ok
        /\ flow.at = "unpacked" => root = orig

RECURSIVE Balanced(_, _)
\* every exit of the log restores the scope its entry was made at
Balanced(log, stack) ==
    IF log = <<>> THEN stack = <<>>
    ELSE IF Head(log).ev = "enter"
    THEN Balanced(Tail(log), <<Head(log).at>> \o stack)
    ELSE /\ stack # <<>>
         /\ Head(log).at = Head(stack)
         /\ Balanced(Tail(log), Tail(stack))

\* C2: every scope entry made during an operation, at any nesting depth, is
\* undone on exit with the scope it was entered at, and after the operation
\* has returned or raised the Context's _scope is what it was before the call.
ScopeRestored == _scope = <<>> /\ Balanced(scopelog, <<>>)

\* an operation that raised inside a scope entered below another scope
ScopeRestoredWitness ==
    /\ exc # "none"
    /\ \E i \in DOMAIN scopelog : scopelog[i].ev = "enter" /\ scopelog[i].at # <<>>

RECURSIVE SelectorUnions(_)
RECURSIVE SelectorUnionsIn(_)
\* the number of union fields the registration of the tree f reaches
SelectorUnions(f) ==
    CASE f.kind = "union" -> 1
      [] f.kind = "record" -> SelectorUnionsIn(f.fields)
      [] OTHER -> 0

SelectorUnionsIn(flds) ==
    IF flds = <<>> THEN 0
    ELSE SelectorUnions(Head(flds)) + SelectorUnionsIn(Tail(flds))

CodecCallsOfOperation ==
    /\ (flow.ok /\ flow.at = "packed") => ncalls = 1
    /\ (flow.ok /\ flow.at = "unpacked") => ncalls = 1 + SelectorUnions(tree)

CodecCallsOfPass ==
    /\ op' \in {"Context.pack", "Context.unpack"} =>
           /\ Len(codec') <= 1
           /\ exc' = "none" => Len(codec') = (IF fields = <<>> THEN 0 ELSE 1)
    /\ op' = "Field.pack" => codec' = <<>>
    /\ op' = "Field.unpack" => Len(codec') <= SelectorUnions(tree)

RECURSIVE Fragments(_)
\* the fragments of the fields of the pending entries fxs, in order
Fragments(fxs) ==
    IF fxs = <<>> THEN <<>> ELSE Head(fxs).field.fmt \o Fragments(Tail(fxs))

RECURSIVE LeafValues(_, _)
\* the values the tree r holds for the pending entries fxs, in order
LeafValues(fxs, r) ==
    IF fxs = <<>> THEN <<>>
    ELSE LET path == Head(fxs).scope \o NameKey(Head(fxs).field.name)
         IN  <<IF path = <<>> THEN r ELSE lookup(r, path).v>>
             \o LeafValues(Tail(fxs), r)

FormatInRegistrationOrder ==
    Context_struct_format(Ctx) = <<params>> \o Fragments(fields)

CodecArgumentsInRegistrationOrder ==
    (op' \in {"Context.pack", "Context.unpack"} /\ codec' # <<>>) =>
        /\ codec'[1].fmt = <<params>> \o Fragments(fields)
        /\ op' = "Context.pack" => codec'[1].values = LeafValues(fields, root)

\* C4: struct_format is the byte-order prefix followed by the fragments of
\* the pending fields in registration order, and a pack pass hands the codec
\* that format with the pack values of the pending fields in the same order.
StructFormatOrder ==
    []FormatInRegistrationOrder /\ [][CodecArgumentsInRegistrationOrder]_vars

\* a pack pass that gave the codec the values of three or more fields
StructFormatOrderWitness ==
    /\ op = "Context.pack"
    /\ exc = "none"
    /\ codec # <<>>
    /\ Len(codec[1].values) >= 3
    /\ Len(codec[1].fmt) = 1 + Len(codec[1].values)

\* C5: struct_format is always a format the codec accepts, also while a union
\* field is registered as a pending field.
FormatAcceptedByCodec == FormatValid(Context_struct_format(Ctx))

\* the entries of a pending list as (field, scope) pairs
Entries(fxs) == [i \in DOMAIN fxs |-> [field |-> fxs[i].field, scope |-> fxs[i].scope]]

PendingClearedByPass ==
    /\ (op' \in {"Context.pack", "Context.unpack"} /\ exc' = "none") => fields' = <<>>
    /\ (op' = "Context.pack" /\ exc' = "none") =>
           IF fields = <<>> THEN data' = data /\ codec' = <<>>
           ELSE /\ codec'[1].at = Len(data)
                /\ Entries(hooks') = Entries(fields)
                /\ data' = data \o struct_pack(<<params>> \o Fragments(fields),
                                               LeafValues(fields, root)).bytes
    /\ (op' = "Context.unpack" /\ exc' = "none") =>
           IF fields = <<>> THEN offset' = offset /\ codec' = <<>>
           ELSE /\ codec'[1].at = offset
                /\ codec'[1].fmt = <<params>> \o Fragments(fields)
                /\ codec'[1].values =
                       struct_unpack_from(codec'[1].fmt, data, offset).values
                /\ Entries(hooks') = Entries(fields)

\* C6: a Context.pack or Context.unpack that returns normally leaves the
\* pending list empty; the pass processes the fields pending since the
\* previous pass only, a pack pass appends its bytes after the bytes already
\* in the buffer, and an unpack pass reads at the offset the previous pass
\* stopped at.
ReusableContext == [][PendingClearedByPass]_vars

\* a second pack pass on one Context, appending after the bytes of the first
ReusableContextWitness ==
    /\ op = "Context.pack"
    /\ exc = "none"
    /\ codec # <<>>
    /\ codec[1].at > 0
    /\ Len(data) > codec[1].at
    /\ fields = <<>>

RECURSIVE Advance(_)
\* the bytes the successful unpack_next calls of a codec log consumed
Advance(calls) ==
    IF calls = <<>> THEN 0
    ELSE (IF Head(calls).fn = "unpack_from" /\ Head(calls).ok
          THEN calcsize(Head(calls).fmt) ELSE 0) + Advance(Tail(calls))

OffsetStartsAtZero == op \in {"Context", "Context.new"} => offset = 0

OffsetAdvancesByCalcsize ==
    op' # "Context.new" =>
        /\ offset' >= offset
        /\ offset' = offset + Advance(codec')
        /\ op' \in {"Field.pack", "Context.pack"} => offset' = offset

\* C7: offset starts at 0 and never decreases; each successful unpack_next
\* adds exactly calcsize of its format, a failing one adds nothing, and no
\* other operation changes it.
OffsetMonotonic == []OffsetStartsAtZero /\ [][OffsetAdvancesByCalcsize]_vars

\* an unpack pass whose codec call failed after an earlier pass had advanced
OffsetMonotonicWitness ==
    /\ op = "Context.unpack"
    /\ exc = "struct.error"
    /\ codec # <<>>
    /\ ~codec[1].ok
    /\ offset > 0

DataUntouchedByUnpack ==
    op' \in {"Field.unpack", "Context.unpack"} => data' = data

\* the Context the caller's unpack path reaches on the buffer without the
\* trailing bytes
WithoutTrailing ==
    LET d0 == SubSeq(data, 1, Len(data) - Len(extra))
        b1 == Field_unpack(tree, Context(params, EmptyDict, d0))
    IN  IF flow.at = "unpackreg" \/ Failed(b1) THEN b1 ELSE Context_unpack(b1)

TrailingBytesIgnored ==
    flow.at \in {"unpackreg", "unpacked"} =>
        /\ flow.ok = ~Failed(WithoutTrailing)
        /\ flow.ok => /\ root = WithoutTrailing.root
                      /\ offset = WithoutTrailing.offset
                      /\ offset <= Len(data) - Len(extra)

\* C8: unpacking leaves the data buffer as it was; bytes after the ones the
\* format consumes are not read and are not an error, and the value unpacked
\* is the one the buffer without them unpacks to.
TrailingBytesUntouched == []TrailingBytesIgnored /\ [][DataUntouchedByUnpack]_vars

\* an unpack that finished normally on a buffer with trailing bytes
TrailingBytesUntouchedWitness ==
    /\ flow.at = "unpacked"
    /\ flow.ok
    /\ extra # <<>>
    /\ offset = Len(data) - Len(extra)
    /\ root = orig

IsPrefix(p, q) == Len(p) <= Len(q) /\ SubSeq(q, 1, Len(p)) = p

RECURSIVE Sites(_, _)
\* the union fields of the tree f, each with its enclosing scope
Sites(f, scope) ==
    CASE f.kind = "union" -> {[scope |-> scope, union |-> f]}
      [] f.kind = "record" ->
           UNION {Sites(f.fields[i], scope \o NameKey(f.name)) : i \in DOMAIN f.fields}
      [] OTHER -> {}

RECURSIVE Leaves(_)
\* the fields of the tree f, f included
Leaves(f) ==
    CASE f.kind = "primitive" -> {f}
      [] f.kind = "record" -> {f} \cup UNION {Leaves(f.fields[i]) : i \in DOMAIN f.fields}
      [] OTHER -> {f} \cup UNION {Leaves(f.fields[k]) : k \in DOMAIN f.fields}

\* the member the mapping of the union at site s gives for the selector in r
Selected(s, r) ==
    LET sel == lookup(r, s.scope \o s.union.selector)
    IN  IF sel.exc = "none" /\ sel.v.t = "int" /\ sel.v.v \in DOMAIN s.union.fields
        THEN {s.union.fields[sel.v.v]}
        ELSE {}

\* the pending entries under a union's scope are fields of the selected
\* member, at the union's own scope, and of no other member
SelectedMemberOnly ==
    \A s \in Sites(tree, <<>>) : \A i \in DOMAIN fields :
        IsPrefix(s.scope \o <<s.union.name>>, fields[i].scope) =>
            /\ fields[i].scope = s.scope \o <<s.union.name>>
            /\ \E m \in Selected(s, root) :
                 /\ fields[i].field \in Leaves(m)
                 /\ \A k \in DOMAIN s.union.fields :
                      s.union.fields[k] # m => fields[i].field \notin Leaves(s.union.fields[k])

\* a registration that returns normally has registered the selected member
\* (or, for unpack with an empty container, the union itself)
SelectedMemberRegistered ==
    (op \in {"Field.pack", "Field.unpack"} /\ exc = "none") =>
        \A s \in Sites(tree, <<>>) :
            \/ /\ op = "Field.unpack"
               /\ \E i \in DOMAIN fields :
                    fields[i].field = s.union /\ fields[i].scope = s.scope
            \/ \E m \in Selected(s, root) : \A g \in Leaves(m) :
                 (g.kind = "primitive" \/ op = "Field.unpack") =>
                     \E i \in DOMAIN fields :
                         /\ fields[i].field = g
                         /\ fields[i].scope = s.scope \o <<s.union.name>>

\* the value hooks called under a union's scope are those of pending entries
SelectedMemberHooks ==
    \A s \in Sites(tree, <<>>) : \A i \in DOMAIN hooks' :
        IsPrefix(s.scope \o <<s.union.name>>, hooks'[i].scope) =>
            \E j \in DOMAIN fields :
                /\ fields[j].field = hooks'[i].field
                /\ fields[j].scope = hooks'[i].scope

\* C9: a union registers, and has values produced and consumed through, the
\* member its mapping gives for the current selector value and no other
\* member; the member is registered under the enclosing scope + union name.
UnionExclusive ==
    [](SelectedMemberOnly /\ SelectedMemberRegistered) /\ [][SelectedMemberHooks]_vars

\* the member record of a union nested in a record is pending for unpack
UnionExclusiveWitness ==
    /\ op = "Field.unpack"
    /\ exc = "none"
    /\ \E i \in DOMAIN fields :
         /\ fields[i].scope = <<"d", "v">>
         /\ fields[i].field.kind = "record"

RECURSIVE BeforeUnionIn(_, _, _)
\* the entries the registration for unpack of the fields flds makes before
\* it reaches a union: [es, found]
BeforeUnionIn(flds, scope, acc) ==
    IF flds = <<>> THEN [es |-> acc, found |-> FALSE]
    ELSE LET g == Head(flds)
         IN  CASE g.kind = "union" -> [es |-> acc, found |-> TRUE]
               [] g.kind = "record" ->
                    LET r == BeforeUnionIn(g.fields, scope \o NameKey(g.name), acc)
                    IN  IF r.found THEN r
                        ELSE BeforeUnionIn(Tail(flds), scope,
                                           Append(r.es, [field |-> g, scope |-> scope]))
               [] OTHER ->
                    BeforeUnionIn(Tail(flds), scope,
                                  Append(acc, [field |-> g, scope |-> scope]))

BeforeUnion(f) == BeforeUnionIn(<<f>>, <<>>, <<>>).es

IsPrimitiveEntry(e) == e.field.kind = "primitive"

InterimPassFirst ==
    (/\ op' = "Field.unpack"
     /\ exc' = "none"
     /\ Sites(tree, <<>>) # {}
     /\ Entries(fields) \o BeforeUnion(tree) # <<>>
     /\ offset < Len(data)) =>
        LET pend  == Entries(fields) \o BeforeUnion(tree)
            prims == SelectSeq(BeforeUnion(tree), IsPrimitiveEntry)
        IN  /\ codec' # <<>>
            /\ codec'[1].fn = "unpack_from"
            /\ codec'[1].ok
            /\ codec'[1].at = offset
            /\ codec'[1].fmt = <<params>> \o Fragments(pend)
            /\ \A k \in DOMAIN prims :
                 lookup(root', prims[k].scope \o <<prims[k].field.name>>) =
                     [exc |-> "none",
                      v |-> codec'[1].values[Len(codec'[1].values) - Len(prims) + k]]
            /\ Entries(hooks') = pend
            /\ \A i \in DOMAIN fields' : \A k \in DOMAIN BeforeUnion(tree) :
                 BeforeUnion(tree)[k] #
                     [field |-> fields'[i].field, scope |-> fields'[i].scope]
            /\ Len(fields') < Cardinality(Leaves(tree)) - Len(BeforeUnion(tree))
            /\ \A s \in Sites(tree, <<>>) :
                 \E m \in Selected(s, root') : \E i \in DOMAIN fields' :
                     /\ fields'[i].field \in Leaves(m)
                     /\ fields'[i].scope = s.scope \o <<s.union.name>>

\* C10: when a selector-driven union is registered for unpack while fields
\* registered before it are pending and the buffer holds bytes not consumed
\* yet, one interim pass decodes every pending field at the current offset,
\* installs the values in the data tree and empties the pending list, and the
\* member is chosen by the selector value so installed.
InterimPass == [][InterimPassFirst]_vars

\* a registration for unpack whose interim pass decoded two fields
InterimPassWitness ==
    /\ op = "Field.unpack"
    /\ exc = "none"
    /\ codec # <<>>
    /\ codec[1].ok
    /\ Len(codec[1].values) = 2
    /\ fields # <<>>

\* the selector of the union at site s is populated in the data tree r
Populated(s, r) == lookup(r, s.scope \o s.union.selector).exc = "none"

\* the pending entries fxs that are under the scope of the union at site s
MemberEntries(s, fxs) ==
    {i \in DOMAIN fxs : IsPrefix(s.scope \o <<s.union.name>>, fxs[i].scope)}

\* the pending entries fxs that are the union at site s itself
SelfEntries(s, fxs) ==
    {i \in DOMAIN fxs : fxs[i].field = s.union /\ fxs[i].scope = s.scope}

DeferredIffUnresolvable ==
    (op' = "Field.unpack" /\ fields = <<>> /\ exc' # "struct.error") =>
        \A s \in Sites(tree, <<>>) :
            IF Populated(s, root')
            THEN exc' = "none" =>
                     /\ MemberEntries(s, fields') # {}
                     /\ SelfEntries(s, fields') = {}
            ELSE /\ exc' = "none"
                 /\ Cardinality(SelfEntries(s, fields')) = 1
                 /\ MemberEntries(s, fields') = {}

\* C11: a union registered for unpack whose selector is not populated after
\* the interim pass registers itself once as a pending entry and no member;
\* with a populated selector it registers the selected member and not itself.
Deferral == [][DeferredIffUnresolvable]_vars

----------------------------------------------------------------------------
(* The errors of a selector union *)

\* the selector of the union at site s is populated in r with a value the
\* union's mapping has no member for
Unmapped(s, r) ==
    LET sel == lookup(r, s.scope \o s.union.selector)
    IN  sel.exc = "none" /\ sel.v.t = "int" /\ sel.v.v \notin DOMAIN s.union.fields

\* C12: resolving the member of a selector union whose selector value has no
\* entry in the mapping is never reported as the generic missing-key error
\* (KeyError) but as a dedicated selector-map error.
SelectorMapErrorNotKeyError ==
    \A s \in Sites(tree, <<>>) : Unmapped(s, root) => exc # "KeyError"

----------------------------------------------------------------------------
(* A caller that uses Context.get directly, inside or outside a scope *)

\* the data trees of the callers of Context.get
GetRoots ==
    { EmptyDict,
      D1("a", PyInt(1)),
      D1("a", EmptyDict),
      D1("a", D1("b", PyInt(2))),
      D2("n", PyInt(3), "d", EmptyDict),
      D2("b", PyInt(5), "a", EmptyDict) }

\* the scopes a `with context.scope(...)` block of the caller has entered
GetScopes == {<<>>, <<"a">>, <<"d">>}

\* the keys of the calls: None, "a", "b", "n", "a.b"
GetKeys == {<<>>, <<"a">>, <<"b">>, <<"n">>, <<"a", "b">>}

\* the defaults of the calls; MISSING: no default given
GetDefaults == {MISSING, PyNone, PyInt(7), EmptyDict}

GetInit ==
    /\ params = "="
    /\ tree = F_prim
    /\ root \in GetRoots
    /\ data = <<>>
    /\ flow = [at |-> "off", ok |-> FALSE]
    /\ fields = <<>>
    /\ offset = 0
    /\ _scope \in GetScopes
    /\ exc = "none"
    /\ op = "Context"
    /\ codec = <<>>
    /\ hooks = <<>>
    /\ scopelog = <<>>
    /\ ncalls = 0
    /\ orig = root
    /\ extra = <<>>
    /\ nops = 0
    /\ args = <<>>
    /\ result = PyNone
    /\ heap = <<>>
    /\ classes = <<>>
    /\ registry = <<>>

\* context.get(key, default)
Get ==
    /\ nops < MaxOps
    /\ \E key \in GetKeys, default \in GetDefaults :
         \E g \in {Context_get(Ctx, key, default)} :
             InstallCall(g.c, "Context.get", [key |-> key, default |-> default],
                         IF Failed(g.c) THEN PyNone ELSE g.v)
    /\ UNCHANGED <<ncalls, flow, extra>>

GetNext == Get

GetSpec == GetInit /\ [][GetNext]_vars

\* the path scope + key does not lead to a value in the data tree r
Unresolvable(r, scope, key) ==
    /\ scope \o key # <<>>
    /\ lookup(r, scope \o key).exc # "none"

GetWithDefaultReturnsIt ==
    (/\ op' = "Context.get"
     /\ Unresolvable(root, _scope, args'.key)
     /\ args'.default # MISSING)
        => exc' = "none" /\ result' = args'.default

\* C17: Context.get of a path that does not resolve raises ValueError and
\* leaves the data tree as it was when no default is given, and with a default
\* raises nothing and returns the default.
GetUnresolvable ==
    [][/\ (/\ op' = "Context.get"
           /\ Unresolvable(root, _scope, args'.key)
           /\ args'.default = MISSING)
          => exc' = "ValueError" /\ root' = root
       /\ GetWithDefaultReturnsIt]_vars

\* C18: the key of Context.get is resolved under the current scope, and when
\* it does not resolve there it is resolved from the root of the data tree.
GetScopeThenRoot ==
    [][(op' = "Context.get" /\ args'.key # <<>>) =>
          LET scoped == lookup(root, _scope \o args'.key)
              rooted == lookup(root, args'.key)
          IN  /\ scoped.exc = "none" => exc' = "none" /\ result' = scoped.v
              /\ (scoped.exc # "none" /\ rooted.exc = "none")
                     => exc' = "none" /\ result' = rooted.v]_vars

----------------------------------------------------------------------------
(* Records on unpack *)

\* entry j of the pending list fxs is of a field below the record of entry i
ChildEntry(fxs, i, j) ==
    /\ fxs[j].field \in Leaves(fxs[i].field) \ {fxs[i].field}
    /\ IsPrefix(fxs[i].scope \o NameKey(fxs[i].field.name), fxs[j].scope)

RECURSIVE RecordSites(_, _)
\* the records of the tree f that are not members of a union, with their scope
RecordSites(f, scope) ==
    IF f.kind = "record"
    THEN {[scope |-> scope, record |-> f]}
         \cup UNION {RecordSites(f.fields[i], scope \o NameKey(f.name)) :
                       i \in DOMAIN f.fields}
    ELSE {}

\* a registration for unpack that returns leaves one entry for every record,
\* after the entries of all the fields below it
RecordEntryAfterChildren ==
    (op' = "Field.unpack" /\ fields = <<>> /\ exc' = "none") =>
        /\ \A i, j \in DOMAIN fields' :
               (fields'[i].field.kind = "record" /\ ChildEntry(fields', i, j)) => j < i
        /\ \A s \in RecordSites(tree, <<>>) :
               Cardinality({i \in DOMAIN fields' :
                               /\ fields'[i].field = s.record
                               /\ fields'[i].scope = s.scope}) = 1

\* the position, in the values of the codec call, of primitive entry j of fxs
ValueIndex(fxs, j) ==
    Cardinality({k \in 1..j : fxs[k].field.kind = "primitive"})

\* a pass that returns has called the value hooks in the order of the pending
\* list, and has installed for every record entry a value with exactly the
\* record's child names: a child decoded in this pass has the value decoded
\* for its last entry before the record's, a child installed before the pass
\* has the value that was in the tree (a caller that registers the tree
\* again before the pass has entries decoded over the record: the record's
\* last entry is the one that builds its value)
RecordBuiltFromChildren ==
    (op' = "Context.unpack" /\ exc' = "none" /\ fields # <<>>) =>
        /\ Entries(hooks') = Entries(fields)
        /\ \A i \in DOMAIN fields :
               (/\ fields[i].field.kind = "record"
                /\ \A j \in (i + 1)..Len(fields) : ~ChildEntry(fields, i, j)) =>
               LET f     == fields[i].field
                   path  == fields[i].scope \o NameKey(f.name)
                   built == IF path = <<>> THEN root' ELSE lookup(root', path).v
               IN  /\ built.t = "dict"
                   /\ DOMAIN built.m = {f.fields[k].name : k \in DOMAIN f.fields}
                   /\ \A k \in DOMAIN f.fields :
                          LET ch == f.fields[k]
                              js == {j \in 1..(i - 1) :
                                        fields[j].field = ch /\ fields[j].scope = path}
                          IN  CASE ch.kind = "primitive" /\ js # {} ->
                                     built.m[ch.name] =
                                         codec'[1].values[ValueIndex(fields,
                                             CHOOSE j \in js : \A l \in js : l <= j)]
                                [] ch.kind = "primitive" /\ js = {} ->
                                     built.m[ch.name] = lookup(root, path \o <<ch.name>>).v
                                [] OTHER ->
                                     built.m[ch.name] = lookup(root', path \o <<ch.name>>).v

\* C19: on unpack the entry of a record comes in the pending list after the
\* entries of all the fields below it, and the pass builds the record's value
\* last, from exactly the values of its children under the record's scope.
RecordBuiltLast == [][RecordEntryAfterChildren /\ RecordBuiltFromChildren]_vars

\* a nested record holding a union has been rebuilt from a buffer
RecordBuiltLastWitness ==
    /\ op = "Context.unpack"
    /\ exc = "none"
    /\ tree = F_nest
    /\ root = D2("c", PyInt(0), "d",
                 D2("typ", PyInt(1), "v", D2("b", PyInt(2), "c", PyInt(3))))
    /\ Len(hooks) = 5

----------------------------------------------------------------------------
(* Registration of records *)

IsSuffix(p, q) == Len(p) <= Len(q) /\ SubSeq(q, Len(q) - Len(p) + 1, Len(q)) = p

RECURSIVE Registered(_, _, _, _)
RECURSIVE RegisteredEach(_, _, _, _)
\* the (field, scope) entries the declaration of the tree f gives under scope
\* for the data tree r: the children of a record in declaration order under
\* scope + record name, the selected member of a union under scope + union
\* name (the union itself when r has no member for it); container tells
\* whether a record has an entry of its own, after its children
Registered(f, scope, r, container) ==
    CASE f.kind = "record" ->
           RegisteredEach(f.fields, scope \o NameKey(f.name), r, container)
           \o (IF container THEN <<[field |-> f, scope |-> scope]>> ELSE <<>>)
      [] f.kind = "union" ->
           IF Selected([scope |-> scope, union |-> f], r) = {}
           THEN <<[field |-> f, scope |-> scope]>>
           ELSE Registered(CHOOSE m \in Selected([scope |-> scope, union |-> f], r) : TRUE,
                           scope \o <<f.name>>, r, container)
      [] OTHER -> <<[field |-> f, scope |-> scope]>>

RegisteredEach(flds, scope, r, container) ==
    IF flds = <<>> THEN <<>>
    ELSE Registered(Head(flds), scope, r, container)
         \o RegisteredEach(Tail(flds), scope, r, container)

\* a registration that returns has left the entries the declaration gives,
\* those decoded by the interim pass of a union excepted, each with the
\* fragment of its field; container(op) tells whether records have an entry
RegistersAs(container(_)) ==
    (op' \in {"Field.pack", "Field.unpack"} /\ fields = <<>> /\ exc' = "none") =>
        /\ IsSuffix(Entries(fields'), Registered(tree, <<>>, root', container(op')))
        /\ (op' = "Field.pack" \/ SelectorUnions(tree) = 0) =>
               Entries(fields') = Registered(tree, <<>>, root', container(op'))
        /\ \A i \in DOMAIN fields' : fields'[i].struct_format = fields'[i].field.fmt

NoContainer(o) == FALSE

ContainerOnUnpack(o) == o = "Field.unpack"

----------------------------------------------------------------------------
(* Field creation: Field._create_field *)

\* a declared type: a class, typing.Annotated[origin, *metadata], or another
\* parameterised generic (get_origin gives neither None nor Annotated)
Class(name) == [k |-> "class", name |-> name, structclass |-> FALSE]

Structclass(name) == [k |-> "class", name |-> name, structclass |-> TRUE]

Annotated(origin, metadata) == [k |-> "annotated", origin |-> origin, metadata |-> metadata]

Generic(name) == [k |-> "generic", name |-> name]

\* a metadata item of an Annotated type that is no class: a str
Doc(text) == [k |-> "str", name |-> text, structclass |-> FALSE]

\* the Field subclasses of the package, as Field.__subclasses__() may list them
FieldKinds == {"PrimitiveField", "RecordField", "UnionField"}

\* a metadata item that is a Field subclass: `isinstance(meta, type) and
\* issubclass(meta, Field)`
IsFieldClass(meta) == meta.k = "class" /\ meta.name \in FieldKinds \cup {"Field"}

\* the scalar types the primitive field table has a format code for
ScalarTypes == {"int", "bool"}

\* is_structclass(field_type)
is_structclass(field_type) == field_type.k = "class" /\ field_type.structclass

\* <kind>(field_type, **kwargs): the field object
NewField(kind, field_type, kwargs) ==
    [kind |-> kind, type |-> field_type, name |-> kwargs.name]

\* Field._create(field_type, **kwargs): [exc, v]
Field__create(cls, field_type, kwargs) ==
    [exc |-> "IncompatibleFieldTypeError", v |-> PyNone]

\* PrimitiveField._create(field_type, **kwargs)
PrimitiveField__create(cls, field_type, kwargs) ==
    IF field_type.k = "class" /\ field_type.name \in ScalarTypes
    THEN [exc |-> "none", v |-> NewField(cls, field_type, kwargs)]
    ELSE Field__create(cls, field_type, kwargs)

\* RecordField._create(field_type, **kwargs)
RecordField__create(cls, field_type, kwargs) ==
    IF is_structclass(field_type)
    THEN [exc |-> "none", v |-> NewField(cls, field_type, kwargs)]
    ELSE Field__create(cls, field_type, kwargs)

\* sub._create(field_type, **kwargs); UnionField inherits Field._create
Sub__create(sub, field_type, kwargs) ==
    CASE sub = "PrimitiveField" -> PrimitiveField__create(sub, field_type, kwargs)
      [] sub = "RecordField" -> RecordField__create(sub, field_type, kwargs)
      [] OTHER -> Field__create(sub, field_type, kwargs)

RECURSIVE TrySubclasses_no_catch(_, _, _, _)
\* the loop over the subclasses without its `except IncompatibleFieldTypeError`
TrySubclasses_no_catch(subs, field_type, kwargs, tried) ==
    IF subs = <<>>
    THEN [exc |-> "TypeError", v |-> PyNone, tried |-> tried]
    ELSE Bind(Sub__create(Head(subs), field_type, kwargs), LAMBDA r :
             [exc |-> r.exc, v |-> r.v, tried |-> Append(tried, Head(subs))])

RECURSIVE TrySubclasses(_, _, _, _)
\* `for sub in Field.__subclasses__(): try: return sub._create(...) except
\* IncompatibleFieldTypeError: pass`, then the final TypeError: [exc, v, tried]
TrySubclasses(subs, field_type, kwargs, tried) ==
    IF subs = <<>>
    THEN [exc |-> "TypeError", v |-> PyNone, tried |-> tried]
    ELSE Bind(Sub__create(Head(subs), field_type, kwargs), LAMBDA r :
             IF r.exc = "IncompatibleFieldTypeError"
             THEN TrySubclasses(Tail(subs), field_type, kwargs,
                                Append(tried, Head(subs)))
             ELSE [exc |-> r.exc, v |-> r.v, tried |-> Append(tried, Head(subs))])

\* the first Field subclass in the metadata of an Annotated type, 0 if none
FirstFieldClass(metadata) ==
    IF \E i \in DOMAIN metadata : IsFieldClass(metadata[i])
    THEN CHOOSE i \in DOMAIN metadata :
             /\ IsFieldClass(metadata[i])
             /\ \A j \in 1..(i - 1) : ~IsFieldClass(metadata[j])
    ELSE 0

RECURSIVE Field__create_field(_, _, _, _)
\* cls._create_field(field_type, **kwargs) with Field.__subclasses__() = subs;
\* field_type PyNone is the default None: [exc, v, tried]
Field__create_field(cls, field_type, kwargs, subs) ==
    Bind(IF field_type = PyNone THEN Class(cls) ELSE field_type, LAMBDA ft :
        IF ft.k = "annotated"
        THEN IF FirstFieldClass(ft.metadata) # 0
             THEN [exc |-> "none",
                   v |-> NewField(ft.metadata[FirstFieldClass(ft.metadata)].name,
                                  ft.origin, kwargs),
                   tried |-> <<>>]
             ELSE Field__create_field(cls, ft.origin, kwargs, subs)
        ELSE IF ft.k = "generic"
        THEN [exc |-> "NotImplementedError", v |-> PyNone, tried |-> <<>>]
        ELSE IF ft # Class(cls)
        THEN TrySubclasses(subs, ft, kwargs, <<>>)
        ELSE [exc |-> "TypeError", v |-> PyNone, tried |-> <<>>])

\* the declared types of the callers: int, bool, complex, a structclass, the
\* Field classes themselves, list[int], and Annotated forms of them
PlainTypes ==
    {Class("int"), Class("bool"), Class("complex"), Structclass("Inner"),
     Class("Field"), Class("RecordField"), Generic("list[int]")}

FieldTypes ==
    {PyNone} \cup PlainTypes
    \cup {Annotated(t, <<Doc("doc")>>) : t \in PlainTypes}
    \cup {Annotated(Class("dict"), <<Doc("doc"), Class(kind)>>) : kind \in FieldKinds}
    \cup {Annotated(Class("dict"), <<Class("UnionField"), Class("RecordField")>>)}

\* the orders Field.__subclasses__() may have: the import order of the modules
SubclassOrders ==
    {s \in [1..Cardinality(FieldKinds) -> FieldKinds] :
        \A i, j \in DOMAIN s : s[i] = s[j] => i = j}

CreateInit ==
    /\ params = "="
    /\ tree = F_prim
    /\ root = EmptyDict
    /\ data = <<>>
    /\ flow = [at |-> "off", ok |-> FALSE]
    /\ fields = <<>>
    /\ offset = 0
    /\ _scope = <<>>
    /\ exc = "none"
    /\ op = "Context"
    /\ codec = <<>>
    /\ hooks = <<>>
    /\ scopelog = <<>>
    /\ ncalls = 0
    /\ orig = root
    /\ extra = <<>>
    /\ nops = 0
    /\ args = <<>>
    /\ result = PyNone
    /\ heap = <<>>
    /\ classes = <<>>
    /\ registry = <<>>

\* cls._create_field(field_type, name=name)
CreateField ==
    /\ nops < MaxOps
    /\ \E cls \in {"Field", "RecordField"}, field_type \in FieldTypes,
          name \in {NoName, "a"}, subs \in SubclassOrders :
         \E r \in {Field__create_field(cls, field_type, [name |-> name], subs)} :
             /\ op' = "Field._create_field"
             /\ args' = [cls |-> cls, field_type |-> field_type, name |-> name,
                         subs |-> subs]
             /\ exc' = r.exc
             /\ result' = [v |-> r.v, tried |-> r.tried]
             /\ nops' = nops + 1
    /\ UNCHANGED <<params, root, data, fields, offset, _scope, codec, hooks,
                   scopelog, ncalls, tree, orig, extra, flow, heap, classes,
                   registry>>

CreateNext == CreateField

CreateSpec == CreateInit /\ [][CreateNext]_vars

RECURSIVE Unwrapped(_)
\* the declared type under the Annotated wrappers that carry no Field class
Unwrapped(field_type) ==
    IF field_type.k = "annotated" /\ FirstFieldClass(field_type.metadata) = 0
    THEN Unwrapped(field_type.origin)
    ELSE field_type

\* the kinds of subs that accept the type ft
Accepting(subs, ft) ==
    {i \in DOMAIN subs : Sub__create(subs[i], ft, [name |-> NoName]).exc = "none"}

\* the declared type of the call, None standing for cls
DeclaredType == Unwrapped(IF args.field_type = PyNone THEN Class(args.cls)
                          ELSE args.field_type)

\* IncompatibleFieldTypeError never leaves Field._create_field
IncompatibleNeverEscapes ==
    op = "Field._create_field" => exc # "IncompatibleFieldTypeError"

\* the kinds are tried in order up to the first that accepts, which gives the
\* field; when none accepts the call fails with error
FirstAcceptingKind(error(_)) ==
    (op = "Field._create_field" /\ DeclaredType.k # "annotated"
        /\ DeclaredType # Class(args.cls)) =>
        IF Accepting(args.subs, DeclaredType) = {}
        THEN exc = error(DeclaredType) /\ result.v = PyNone
        ELSE LET i == CHOOSE i \in Accepting(args.subs, DeclaredType) :
                          \A j \in Accepting(args.subs, DeclaredType) : i <= j
             IN  /\ exc = "none"
                 /\ result.tried = SubSeq(args.subs, 1, i)
                 /\ result.v = NewField(args.subs[i], DeclaredType, [name |-> args.name])

AlwaysTypeError(ft) == "TypeError"

GenericNotImplemented(ft) ==
    IF ft.k = "generic" THEN "NotImplementedError" ELSE "TypeError"

\* C16: Field._create_field never lets IncompatibleFieldTypeError out; it
\* tries the kinds in order and returns the field of the first that accepts
\* the declared type; when no kind accepts it the call fails with TypeError.
CreateFieldTriesKinds == IncompatibleNeverEscapes /\ FirstAcceptingKind(AlwaysTypeError)

\* C16 amended: as C16, for a declared type that is a class; a parameterised
\* generic type that is not Annotated fails with NotImplementedError, before
\* any kind is tried.
CreateFieldTriesClassKinds ==
    /\ IncompatibleNeverEscapes
    /\ FirstAcceptingKind(GenericNotImplemented)
    /\ (op = "Field._create_field" /\ DeclaredType.k = "generic") => result.tried = <<>>

\* a structclass type was accepted by the record kind after another kind
\* had refused it
CreateFieldWitness ==
    /\ op = "Field._create_field"
    /\ exc = "none"
    /\ Len(result.tried) > 1
    /\ result.v.kind = "RecordField"

----------------------------------------------------------------------------
(* Schemas: the field table of a structclass and of a class derived from it *)

INHERIT == [t |-> "INHERIT"]

\* the options of `field(...)`: no metadata, or some of pack_length and
\* unpack_length
NoMeta == [pack_length |-> MISSING, unpack_length |-> MISSING]

\* text[length](name=None): a new Field object, not yet registered
TextField(length) ==
    [name |-> NoName, length |-> length, pack_length |-> PyNone,
     unpack_length |-> PyNone]

\* fld.configure(**meta) of a field with lengths: the options given are set
configure(fld, meta) ==
    [fld EXCEPT !.pack_length = IF meta.pack_length = MISSING THEN @
                                 ELSE meta.pack_length,
                !.unpack_length = IF meta.unpack_length = MISSING THEN @
                                   ELSE meta.unpack_length]

\* the state of a class under construction: [exc, heap, fields]; fields is the
\* table name -> identity of the Field object
\* Field._register that configures the object the table already holds
Field__register_in_place(b, self, name, meta) ==
    IF b.heap[self].name \notin {NoName, name} THEN [b EXCEPT !.exc = "AssertionError"]
    ELSE IF name \in DOMAIN b.fields
    THEN [b EXCEPT !.heap[b.fields[name]] =
                       IF meta # NoMeta THEN configure(b.heap[self], meta)
                       ELSE b.heap[self]]
    ELSE [b EXCEPT !.heap[self].name = name,
                   !.fields = (name :> self) @@ b.fields]

\* self._register(name, fields, field_meta), self a new object of b.heap
Field__register(b, self, name, meta) ==
    IF b.heap[self].name \notin {NoName, name} THEN [b EXCEPT !.exc = "AssertionError"]
    ELSE IF b.heap[self].length = INHERIT /\ name \notin DOMAIN b.fields
    THEN [b EXCEPT !.exc = "AssertionError", !.heap[self].name = name]
    ELSE Bind([b.heap[self] EXCEPT
                   !.name = name,
                   !.length = IF @ = INHERIT THEN b.heap[b.fields[name]].length
                              ELSE @], LAMBDA fld :
             [b EXCEPT !.heap[self] = IF meta # NoMeta THEN configure(fld, meta)
                                      ELSE fld,
                       !.fields = (name :> self) @@ b.fields])

RECURSIVE RegisterEach(_, _)
\* the loop of the class decorator over the annotations of the class body:
\* a new Field object for each, registered into the table under construction
RegisterEach(b, decls) ==
    IF decls = <<>> \/ b.exc # "none" THEN b
    ELSE RegisterEach(
             Field__register([b EXCEPT !.heap = Append(@, TextField(Head(decls).length))],
                             Len(b.heap) + 1, Head(decls).name, Head(decls).meta),
             Tail(decls))

\* @structclass on a class with the given base (NoName: none) and body: the
\* table starts as a copy of the base's table
structclass(base, decls) ==
    RegisterEach([exc |-> "none", heap |-> heap,
                  fields |-> IF base = NoName THEN <<>> ELSE classes[base]],
                 decls)

\* the options given with `field(...)` in the class bodies
Metas ==
    {NoMeta,
     [pack_length |-> PyInt(5), unpack_length |-> MISSING],
     [pack_length |-> PyInt(7), unpack_length |-> PyInt(8)]}

\* the declarations of one field name in a class body: none, or text[44] or
\* text[INHERIT] with options
DeclsOf(name) ==
    {<<>>} \cup {<<[name |-> name, length |-> l, meta |-> m]>> :
                   l \in {PyInt(44), PyInt(88), INHERIT}, m \in Metas}

\* the class bodies
Bodies == {a \o b : a \in DeclsOf("field_a"), b \in DeclsOf("field_b")}

SchemaInit ==
    /\ params = "="
    /\ tree = F_prim
    /\ root = EmptyDict
    /\ data = <<>>
    /\ flow = [at |-> "off", ok |-> FALSE]
    /\ fields = <<>>
    /\ offset = 0
    /\ _scope = <<>>
    /\ exc = "none"
    /\ op = "Context"
    /\ codec = <<>>
    /\ hooks = <<>>
    /\ scopelog = <<>>
    /\ ncalls = 0
    /\ orig = root
    /\ extra = <<>>
    /\ nops = 0
    /\ args = <<>>
    /\ result = PyNone
    /\ heap = <<>>
    /\ classes = <<>>
    /\ registry = <<>>

\* the class cname(base) with the given body has been decorated: result b
Decorated(cname, base, body, b) ==
    /\ op' = "structclass"
    /\ args' = [cls |-> cname, base |-> base, body |-> body]
    /\ exc' = b.exc
    /\ result' = PyNone
    /\ nops' = nops + 1
    /\ IF b.exc = "none"
       THEN heap' = b.heap /\ classes' = (cname :> b.fields) @@ classes
       ELSE UNCHANGED <<heap, classes>>
    /\ UNCHANGED <<params, root, data, fields, offset, _scope, codec, hooks,
                   scopelog, ncalls, tree, orig, extra, flow, registry>>

\* @structclass class Base: ...
DeclareBase ==
    /\ nops < MaxOps
    /\ "Base" \notin DOMAIN classes
    /\ \E body \in Bodies :
         Decorated("Base", NoName, body, structclass(NoName, body))

\* @structclass class Augment(Base): ...
DeclareDerived ==
    /\ nops < MaxOps
    /\ "Base" \in DOMAIN classes
    /\ "Augment" \notin DOMAIN classes
    /\ \E body \in Bodies :
         Decorated("Augment", "Base", body, structclass("Base", body))

SchemaNext == DeclareBase \/ DeclareDerived

SchemaSpec == SchemaInit /\ [][SchemaNext]_vars

\* the names the class body redeclares
Redeclared(body) == {body[i].name : i \in DOMAIN body}

\* the configuration a declaration gives a field of a class derived from base
DeclaredConfig(d, base) ==
    [name |-> d.name,
     length |-> IF d.length = INHERIT /\ d.name \in DOMAIN classes[base]
                THEN heap[classes[base][d.name]].length
                ELSE d.length,
     pack_length |-> IF d.meta.pack_length = MISSING THEN PyNone
                     ELSE d.meta.pack_length,
     unpack_length |-> IF d.meta.unpack_length = MISSING THEN PyNone
                       ELSE d.meta.unpack_length]

DerivedChangesOnlyRedeclared ==
    (op' = "structclass" /\ exc' = "none" /\ args'.base # NoName) =>
        LET base == args'.base
            cls  == args'.cls
        IN  /\ classes'[base] = classes[base]
            /\ \A n \in DOMAIN classes[base] :
                   /\ heap'[classes[base][n]] = heap[classes[base][n]]
                   /\ n \notin Redeclared(args'.body) =>
                          heap'[classes'[cls][n]] = heap[classes[base][n]]
            /\ \A i \in DOMAIN args'.body :
                   heap'[classes'[cls][args'.body[i].name]] =
                       DeclaredConfig(args'.body[i], base)
            /\ DOMAIN classes'[cls] = DOMAIN classes[base] \cup Redeclared(args'.body)

\* C15: building a derived schema over the base schema's field table changes
\* only the fields the derived class redeclares: the other fields keep the
\* base's length, pack_length and unpack_length, and the base's table and
\* Field objects are as they were.
DerivedSchemaIsolated == [][DerivedChangesOnlyRedeclared]_vars

\* a derived class overrides one field's options and inherits the other
DerivedSchemaWitness ==
    /\ op = "structclass"
    /\ exc = "none"
    /\ args.cls = "Augment"
    /\ Redeclared(args.body) = {"field_a"}
    /\ DOMAIN classes["Base"] = {"field_a", "field_b"}
    /\ heap[classes["Augment"]["field_a"]] # heap[classes["Base"]["field_a"]]
    /\ heap[classes["Base"]["field_b"]].pack_length = PyInt(5)
    /\ classes["Augment"]["field_b"] = classes["Base"]["field_b"]

----------------------------------------------------------------------------
(* Fields with a length: text / binary and arrays, with disjoint pack and   *)
(* unpack length sources.  A value of such a field is held as              *)
(* [t |-> "seq", v |-> s], s the sequence of its bytes or elements, and its *)
(* fragment `Ns` (or N element codes) as N one-byte codes.                 *)

PySeq(s) == [t |-> "seq", v |-> s]

\* unpack_length given as a path of the data tree
FromPath(path) == [path |-> path, prefix |-> ""]

\* unpack_length given as a primitive type: an inline length prefix
Inline(code) == [path |-> <<>>, prefix |-> code]

\* text[length] / array[elem, length] = field(pack_length=..., unpack_length=...)
Sized(name, code, length, pack_length, unpack_length) ==
    [kind |-> "sized", name |-> name, code |-> code, length |-> length,
     pack_length |-> pack_length, unpack_length |-> unpack_length]

RECURSIVE Elements(_)
\* the content of a value decoded as the codec values vs
Elements(vs) == IF vs = <<>> THEN <<>> ELSE <<Head(vs).v>> \o Elements(Tail(vs))

\* N copies of a format code
Repeat(code, n) == [i \in 1..n |-> code]

\* the length a value is packed with when the overflow check is left out: the
\* content is cut at the declared maximum
SizedField_pack_length_truncating(f, c) ==
    Bind(Context_get(c, f.pack_length, MISSING), LAMBDA g :
        IF Failed(g.c) THEN [c |-> g.c, n |-> 0]
        ELSE [c |-> g.c,
              n |-> IF Len(g.v.v) > f.length THEN f.length ELSE Len(g.v.v)])

\* the length a value is packed with: the length of the value the pack-length
\* source names; more than the declared maximum is a ValueError: [c, n]
SizedField_pack_length(f, c) ==
    Bind(Context_get(c, f.pack_length, MISSING), LAMBDA g :
        IF Failed(g.c) THEN [c |-> g.c, n |-> 0]
        ELSE IF Len(g.v.v) > f.length THEN [c |-> Raise(g.c, "ValueError"), n |-> 0]
        ELSE [c |-> g.c, n |-> Len(g.v.v)])

\* the codec call of a pack: the length, then n elements of the value
SizedPackCall(f, c, n, value) ==
    Bind(struct_pack(<<c.params, "B">> \o Repeat(f.code, n),
                     <<PyInt(n)>> \o [i \in 1..n |-> PyInt(value.v[i])]), LAMBDA res :
        IF res.exc # "none" THEN Raise(c, res.exc)
        ELSE [c EXCEPT !.data = @ \o res.bytes])

\* obj._pack() for a record with a sized field: the pack length is written to
\* the unpack-length source when that is a path, and packed before the value
SizedField_pack(f, c) ==
    Bind(SizedField_pack_length(f, c), LAMBDA l :
        IF Failed(l.c) THEN l.c
        ELSE Bind(IF f.unpack_length.path # <<>>
                  THEN Context_set(l.c, f.unpack_length.path, PyInt(l.n), TRUE)
                  ELSE l.c, LAMBDA c1 :
            IF Failed(c1) THEN [c1 EXCEPT !.root = c.root]
            ELSE SizedPackCall(f, c1, l.n, lookup(c1.root, <<f.name>>).v)))

\* len(obj): the size of the header and of the value: [c, n]
SizedField_size(f, c) ==
    Bind(SizedField_pack_length(f, c), LAMBDA l :
        IF Failed(l.c) THEN l
        ELSE [c |-> l.c,
              n |-> calcsize(<<c.params, "B">> \o Repeat(f.code, l.n))])

\* the number of elements decoded that is never more than the declared maximum
SizedField_unpack_count_capped(f, n) == IF n > f.length THEN f.length ELSE n

\* the number of elements decoded for the value n of the unpack-length source
SizedField_unpack_count(f, n) == n

\* cls._unpack(data) for a record with a sized field: the length is decoded
\* first (a field of the header, or the inline prefix), then as many elements
\* as it says; the decoded values are installed in the data tree
SizedField_unpack(f, c) ==
    Bind(Context_unpack_next(c, <<c.params, "B">>), LAMBDA h :
        IF Failed(h.c) THEN h.c
        ELSE Bind(IF f.unpack_length.path # <<>>
                  THEN Context_set(Context_get(h.c, <<f.unpack_length.path[1]>>,
                                               EmptyDict).c,
                                   f.unpack_length.path, h.values[1], TRUE)
                  ELSE h.c, LAMBDA c1 :
            IF Failed(c1) THEN c1
            ELSE Bind(Context_unpack_next(
                          c1, <<c.params>> \o
                              Repeat(f.code, SizedField_unpack_count(f, h.values[1].v))),
                      LAMBDA u :
                IF Failed(u.c) THEN u.c
                ELSE Context_set(u.c, <<f.name>>,
                                 PySeq(Elements(u.values)),
                                 TRUE))))

\* the longest content of the values and buffers of the callers
MaxLen == 3

\* msg: text[2] = field(pack_length="msg", unpack_length="hdr.msg_len")
F_text == Sized("msg", "B", 2, <<"msg">>, FromPath(<<"hdr", "msg_len">>))

\* items: array[int8, 1] = field(pack_length="items", unpack_length="hdr.item_count")
F_items == Sized("items", "b", 1, <<"items">>, FromPath(<<"hdr", "item_count">>))

\* fld: text[2] = field(pack_length="fld", unpack_length=uint8)
F_prefixed == Sized("fld", "B", 2, <<"fld">>, Inline("B"))

SizedSchemas == {F_text, F_items, F_prefixed}

RECURSIVE Contents(_, _)
\* the contents of up to n elements drawn from the set elems
Contents(elems, n) ==
    IF n = 0 THEN {<<>>}
    ELSE Contents(elems, n - 1)
         \cup {Append(s, e) : s \in Contents(elems, n - 1), e \in elems}

\* the objects of the class with the sized field f that callers pack
SizedObjects(f) ==
    IF f.unpack_length.path # <<>>
    THEN {D2(f.unpack_length.path[1], D1(f.unpack_length.path[2], PyInt(h)),
             f.name, PySeq(s)) : h \in {0, 2}, s \in Contents({1, 2}, MaxLen)}
    ELSE {D1(f.name, PySeq(s)) : s \in Contents({1, 2}, MaxLen)}

\* the buffers callers unpack: a length byte and some content, or nothing
SizedBuffers ==
    {<<>>} \cup {<<n>> \o s : n \in 0..MaxLen, s \in Contents({7, 8}, MaxLen)}

LengthInit ==
    /\ params = "="
    /\ tree \in SizedSchemas
    /\ \/ root \in SizedObjects(tree) /\ data = <<>>
       \/ root = EmptyDict /\ data \in SizedBuffers
    /\ flow = [at |-> "off", ok |-> FALSE]
    /\ fields = <<>>
    /\ offset = 0
    /\ _scope = <<>>
    /\ exc = "none"
    /\ op = "Context"
    /\ codec = <<>>
    /\ hooks = <<>>
    /\ scopelog = <<>>
    /\ ncalls = 0
    /\ orig = root
    /\ extra = <<>>
    /\ nops = 0
    /\ args = <<>>
    /\ result = PyNone
    /\ heap = <<>>
    /\ classes = <<>>
    /\ registry = <<>>

\* obj._pack()
SizedPack ==
    /\ nops < MaxOps
    /\ \E c \in {SizedField_pack(tree, Ctx)} :
         InstallCall(c, "pack", <<>>, IF Failed(c) THEN PyNone ELSE PySeq(c.data))
    /\ UNCHANGED <<ncalls, flow, extra>>

\* len(obj)
SizedLen ==
    /\ nops < MaxOps
    /\ \E l \in {SizedField_size(tree, Ctx)} :
         InstallCall(l.c, "len", <<>>, IF Failed(l.c) THEN PyNone ELSE PyInt(l.n))
    /\ UNCHANGED <<ncalls, flow, extra>>

\* the bytes that follow a packed value in the buffer a caller unpacks: none,
\* or one more length byte and one element
SizedExtras == {<<>>, <<1, 7>>}

\* context.new(data=context.data + trailing)
SizedNew ==
    /\ nops < MaxOps
    /\ data # <<>>
    /\ \E trailing \in SizedExtras :
         /\ InstallCall(Context(params, EmptyDict, data \o trailing), "Context.new",
                        <<>>, PyNone)
         /\ extra' = trailing
    /\ UNCHANGED <<ncalls, flow>>

\* cls._unpack(data)
SizedUnpack ==
    /\ nops < MaxOps
    /\ \E c \in {SizedField_unpack(tree, Ctx)} :
         InstallCall(c, "unpack", <<>>, IF Failed(c) THEN PyNone ELSE c.root)
    /\ UNCHANGED <<ncalls, flow, extra>>

LengthNext == SizedPack \/ SizedLen \/ SizedNew \/ SizedUnpack

LengthSpec == LengthInit /\ [][LengthNext]_vars

\* the value the pack-length source of the field names is longer than the
\* field's declared maximum
TooLong(f, r) ==
    LET v == lookup(r, f.pack_length)
    IN  v.exc = "none" /\ v.v.t = "seq" /\ Len(v.v.v) > f.length

\* C13: packing or measuring a value longer than the declared maximum length
\* of its field raises ValueError; nothing is cut and no buffer is produced.
OverflowRejected ==
    [][(op' \in {"pack", "len"} /\ TooLong(tree, root)) =>
          /\ exc' = "ValueError"
          /\ data' = data
          /\ result' = PyNone
          /\ root' = root]_vars

\* a text one longer than its maximum was refused by pack
OverflowRejectedWitness ==
    /\ op = "pack"
    /\ exc = "ValueError"
    /\ TooLong(tree, root)
    /\ data = <<>>

\* C14: unpack decodes exactly as many elements as the unpack-length source
\* in the incoming buffer says, whatever the declared maximum and whatever
\* length the bytes were packed with: they are the bytes after the length.
UnpackLengthOnly ==
    [][(op' = "unpack" /\ exc' = "none") =>
          LET n     == data[offset + 1]
              value == lookup(root', <<tree.name>>)
          IN  /\ value.exc = "none"
              /\ value.v.t = "seq"
              /\ Len(value.v.v) = n
              /\ \A i \in 1..n :
                     value.v.v[i] = Decode(params, tree.code, <<data[offset + 1 + i]>>)
              /\ offset' = offset + 1 + n
              /\ tree.unpack_length.path # <<>> =>
                     lookup(root', tree.unpack_length.path) =
                         [exc |-> "none", v |-> PyInt(n)]]_vars

\* a buffer whose length byte is more than the declared maximum was decoded,
\* with bytes left after the value
UnpackLengthOnlyWitness ==
    /\ op = "unpack"
    /\ exc = "none"
    /\ tree = F_text
    /\ Len(lookup(root, <<"msg">>).v.v) > tree.length
    /\ offset < Len(data)

----------------------------------------------------------------------------
(* A failing Context.pack *)

\* C22: a Context.pack that raises, while producing the values or in the
\* codec, leaves data as it was and keeps the pending entries of the pass; a
\* Context.pack with nothing pending returns data as it is and does not call
\* the codec.
PackAllOrNothing ==
    [][op' = "Context.pack" =>
          /\ exc' # "none" => data' = data /\ fields' = fields /\ fields # <<>>
          /\ fields = <<>> =>
                 data' = data /\ exc' = "none" /\ codec' = <<>> /\ fields' = <<>>]_vars

\* the codec refused the values of the pending entries while the buffer
\* already held bytes
PackAllOrNothingWitness ==
    /\ op = "Context.pack"
    /\ exc = "struct.error"
    /\ codec # <<>>
    /\ ~codec[Len(codec)].ok
    /\ data # <<>>
    /\ fields # <<>>

----------------------------------------------------------------------------
(* The registry of specialized field classes. A class name is the sequence *)
(* of the pieces the f-string joins; a class is an object of the heap.     *)

Digits == <<"0", "1", "2", "3", "4", "5", "6", "7", "8", "9">>

RECURSIVE Str(_)
\* f"{n}" for a natural number n
Str(n) ==
    IF n < 10 THEN <<Digits[n + 1]>>
    ELSE Str(n \div 10) \o <<Digits[(n % 10) + 1]>>

\* type(name, (cls,), ns)
type(name, cls, ns) == [name |-> name, base |-> cls, ns |-> ns]

RECURSIVE UniqueName(_, _, _, _)
\* the `while unique_name in Field.__specialized_classes__` loop
UniqueName(reg, name, unique_name, count) ==
    IF unique_name \in DOMAIN reg
    THEN UniqueName(reg, name, name \o <<"_">> \o Str(count + 1), count + 1)
    ELSE unique_name

\* cls._create_specialized_class(name, ns, unique) over b = [heap, registry]:
\* [heap, registry, v], v the class returned
Field__create_specialized_class(b, cls, name, ns, unique) ==
    Bind(IF unique THEN UniqueName(b.registry, name, name, 1) ELSE name,
         LAMBDA nm :
        Bind(IF nm \in DOMAIN b.registry THEN b
             ELSE [heap |-> Append(b.heap, type(nm, cls, ns)),
                   registry |-> (nm :> (Len(b.heap) + 1)) @@ b.registry],
             LAMBDA b1 :
            [heap |-> b1.heap, registry |-> b1.registry, v |-> b1.registry[nm]]))

\* RecordField[fields]
RecordField__class_getitem(b, cls, flds) ==
    Field__create_specialized_class(
        b, cls, <<cls, "_", "_">> \o Str(Len(flds)) \o <<"_", "fields">>,
        [fields |-> flds], FALSE)

\* UnionField[selector, fields]
UnionField__class_getitem(b, cls, selector, flds) ==
    Field__create_specialized_class(
        b, cls,
        <<cls, "_", "_", selector, "_", "_">> \o Str(Cardinality(DOMAIN flds)),
        [selector |-> selector, fields |-> flds], FALSE)

\* the field tuples callers specialize RecordField with
RecordParameters ==
    { <<Primitive("a", "b"), Primitive("b", "h")>>,
      <<Primitive("c", "B"), Primitive("d", "H")>>,
      <<Primitive("a", "b")>> }

\* the selectors and member mappings callers specialize UnionField with
Selectors == {"typ", "kind"}

UnionParameters ==
    { Members, (0 :> Primitive(NoName, "B")) @@ (1 :> Primitive(NoName, "H")) }

\* the names and namespaces of direct calls of _create_specialized_class
SpecialNames == {<<"X">>, <<"X", "_", "2">>}

Namespaces == {[p |-> 1], [p |-> 2]}

RegistryInit ==
    /\ params = "="
    /\ tree = F_prim
    /\ root = EmptyDict
    /\ data = <<>>
    /\ flow = [at |-> "off", ok |-> FALSE]
    /\ fields = <<>>
    /\ offset = 0
    /\ _scope = <<>>
    /\ exc = "none"
    /\ op = "Context"
    /\ codec = <<>>
    /\ hooks = <<>>
    /\ scopelog = <<>>
    /\ ncalls = 0
    /\ orig = root
    /\ extra = <<>>
    /\ nops = 0
    /\ args = <<>>
    /\ result = PyNone
    /\ heap = <<>>
    /\ classes = <<>>
    /\ registry = <<>>

\* the registry and the heap after a request that returned r.v
Specialized(name, cls, ns, r) ==
    /\ op' = name
    /\ args' = [cls |-> cls, ns |-> ns]
    /\ result' = r.v
    /\ heap' = r.heap
    /\ registry' = r.registry
    /\ nops' = nops + 1
    /\ UNCHANGED <<params, root, data, fields, offset, _scope, exc, codec, hooks,
                   scopelog, ncalls, tree, orig, extra, flow, classes>>

\* RecordField[fields]
RecordGetItem ==
    /\ nops < MaxOps
    /\ \E flds \in RecordParameters :
         Specialized("RecordField.__class_getitem__", "RecordField",
                     [fields |-> flds],
                     RecordField__class_getitem(
                         [heap |-> heap, registry |-> registry], "RecordField", flds))

\* UnionField[selector, fields]
UnionGetItem ==
    /\ nops < MaxOps
    /\ \E selector \in Selectors, flds \in UnionParameters :
         Specialized("UnionField.__class_getitem__", "UnionField",
                     [selector |-> selector, fields |-> flds],
                     UnionField__class_getitem(
                         [heap |-> heap, registry |-> registry], "UnionField",
                         selector, flds))

\* Field._create_specialized_class(name, ns, unique)
CreateSpecialized ==
    /\ nops < MaxOps
    /\ \E name \in SpecialNames, ns \in Namespaces, unique \in BOOLEAN :
         Specialized("Field._create_specialized_class", "Field", ns,
                     Field__create_specialized_class(
                         [heap |-> heap, registry |-> registry], "Field", name, ns,
                         unique))

RegistryNext == RecordGetItem \/ UnionGetItem \/ CreateSpecialized

RegistrySpec == RegistryInit /\ [][RegistryNext]_vars

\* C21: the class a specialization request returns carries the parameters of
\* the request, so that two requests get the same class only when their
\* parameters are equal.
SpecializedByParameters ==
    [][op' \in {"RecordField.__class_getitem__", "UnionField.__class_getitem__",
                "Field._create_specialized_class"} =>
          /\ result' \in 1..Len(heap')
          /\ heap'[result'].ns = args'.ns]_vars
====
